---- MODULE Spec2Model ----
(***************************************************************************)
(* Ticket scanner of the Mi3AD application (src/app/scanner.tsx).          *)
(*                                                                         *)
(* Several ScannerScreen instances share one booking store, the `bookings` *)
(* state of EventContext.  Every instance works on the `bookings` array    *)
(* its last render captured (scanner.tsx:42); Render refreshes it.         *)
(***************************************************************************)
EXTENDS Integers, Sequences, FiniteSets, TLC

\* ------------------------------------------------------------------ bounds
\* Commits are reported as successful at most this many times in a run.
MaxCommits == 2

\* ------------------------------------------------------------- the domain
\* Scanner instances: one native (camera) and one web (manual entry).
Scanners == {1, 2}

\* Platform.OS of each instance.
Platform == [i \in Scanners |-> IF i = 1 THEN "native" ELSE "web"]

\* A code is a string, modelled as the sequence of its characters.
EmptyCode == << >>
CodeA == <<"A">>
CodeB == <<"B">>
CodeZ == <<"Z">>

\* What the camera may decode.
CameraCodes == {CodeA, CodeB, CodeZ}

\* What the user may type in the manual-entry field.
ManualInputs == {EmptyCode, <<" ">>, CodeA, <<" ", "B">>}

Statuses == {"confirmed", "used", "cancelled"}

\* The bookings of the store, in array order, with a status st1, st2.
InitialBookings(st1, st2) ==
    << [id |-> "b1", qrCode |-> CodeA, status |-> st1, ticketCount |-> 2, totalPrice |-> 0],
       [id |-> "b2", qrCode |-> CodeB, status |-> st2, ticketCount |-> 1, totalPrice |-> 50] >>

BookingIds == {"b1", "b2"}

\* --------------------------------------------------------------- the state
VARIABLES
    store,            \* EventContext: the authoritative bookings array
    bookings,         \* per scanner: the bookings array of its last render
    scanned,          \* per scanner: useState scanned
    scanResult,       \* per scanner: useState scanResult (NoResult is null)
    manualQRCode,     \* per scanner: useState manualQRCode
    lastScannedCode,  \* per scanner: useRef lastScannedCode
    scanTimeout,      \* per scanner: TRUE iff the timer of scanTimeoutRef is pending
    alert,            \* per scanner: the Alert.alert dialog on screen
    successCount,     \* per booking: how often a commit reported success
    lastOp,           \* processQRCode, confirmEntry or resetScanner, when the
                      \* last step ran it, with the scanner and the outcome
    mounted,          \* per scanner: the screen is mounted
    isBusinessAccount,\* per scanner: what useAuth().isBusinessAccount() returns
    deviceLocale,     \* Localization.locale, as its sequence of subtags
    storedLanguage,   \* AsyncStorage: the item 'language' (Null if absent)
    providerA,        \* I18nProvider of context/I18nContext.tsx
    providerB,        \* I18nProvider of unnamed/part_000 (the persisted one)
    setItems,         \* AsyncStorage.setItem('language', _) calls in flight
    i18nHist,         \* what has driven the two providers so far
    boundaryState,    \* ErrorBoundary: this.state
    boundaryProps,    \* ErrorBoundary: this.props
    output,           \* ErrorBoundary: what its last render returned
    errorLog,         \* ErrorBoundary: the errors componentDidCatch logged
    isDev,            \* __DEV__
    boundaryOp,       \* ErrorBoundary: what the last step ran
    os,               \* securityUtils: Platform.OS
    items,            \* securityUtils: the items under the prefix secure_
    expected,         \* per key: the value of its last successful store, if
                      \* no delete followed
    lastGet,          \* what the last getSecureData returned
    storageOp,        \* securityUtils: what the last step ran
    hasCrypto,        \* securityUtils: the module-level Crypto is not null
    exportCall,       \* the last encryptUserData call and what it returned
    importCall        \* the last decryptUserData call on what that returned

\* Whether the screen is there, and for whom.
screenVars == << mounted, isBusinessAccount >>

scannerVars == << store, bookings, scanned, scanResult, manualQRCode,
                  lastScannedCode, scanTimeout, alert, successCount, lastOp,
                  screenVars >>

\* The state of the localization providers, which the scanner screen leaves alone.
i18nVars == << deviceLocale, storedLanguage, providerA, providerB, setItems,
               i18nHist >>

\* The state of the error boundary.
boundaryVars == << boundaryState, boundaryProps, output, errorLog, isDev,
                   boundaryOp >>

\* The state of the secure storage.
storageVars == << os, items, expected, lastGet, storageOp >>

\* The state of the user-data export.
exportVars == << hasCrypto, exportCall, importCall >>

nonScannerVars == << i18nVars, boundaryVars, storageVars, exportVars >>

nonI18nVars == << scannerVars, boundaryVars, storageVars, exportVars >>

nonBoundaryVars == << scannerVars, i18nVars, storageVars, exportVars >>

nonStorageVars == << scannerVars, i18nVars, boundaryVars, exportVars >>

nonExportVars == << scannerVars, i18nVars, boundaryVars, storageVars >>

vars == << scannerVars, i18nVars, boundaryVars, storageVars, exportVars >>

\* ------------------------------------------------------------ pure helpers
IsSpace(ch) == ch = " "

\* String.prototype.trim
RECURSIVE TrimLeft(_)
TrimLeft(s) ==
    IF s = << >> THEN s
    ELSE IF IsSpace(Head(s)) THEN TrimLeft(Tail(s)) ELSE s

RECURSIVE TrimRight(_)
TrimRight(s) ==
    IF s = << >> THEN s
    ELSE IF IsSpace(s[Len(s)]) THEN TrimRight(SubSeq(s, 1, Len(s) - 1)) ELSE s

Trim(s) == TrimRight(TrimLeft(s))

\* bookings.find(b => b.qrCode === data): the index of the first match, 0 if none
Find(bs, data) ==
    IF \E k \in 1..Len(bs) : bs[k].qrCode = data
    THEN CHOOSE k \in 1..Len(bs) :
            /\ bs[k].qrCode = data
            /\ \A j \in 1..(k - 1) : bs[j].qrCode # data
    ELSE 0

\* `${booking.totalPrice === 0 ? 'مجاني' : `${booking.totalPrice} د.ل`}`
PriceText(totalPrice) ==
    IF totalPrice = 0 THEN [text |-> "free", amount |-> 0]
    ELSE [text |-> "dinar", amount |-> totalPrice]

NoPrice == [text |-> "none", amount |-> 0]

\* scanResult === null
NoResult == [type |-> "none", title |-> "none",
             message |-> [text |-> "none", ticketCount |-> 0, price |-> NoPrice]]

InvalidResult ==
    [type |-> "error", title |-> "invalidTicket",
     message |-> [text |-> "notInSystem", ticketCount |-> 0, price |-> NoPrice]]

\* UsedResult with the booking's details left out of the message.
UsedResultNoDetails(b) ==
    [type |-> "warning", title |-> "usedTicket",
     message |-> [text |-> "alreadyUsed", ticketCount |-> 0, price |-> NoPrice]]

UsedResult(b) ==
    [type |-> "warning", title |-> "usedTicket",
     message |-> [text |-> "alreadyUsed", ticketCount |-> b.ticketCount,
                  price |-> PriceText(b.totalPrice)]]

CancelledResult ==
    [type |-> "error", title |-> "cancelledTicket",
     message |-> [text |-> "wasCancelled", ticketCount |-> 0, price |-> NoPrice]]

\* ValidResult that always announces a single ticket.
ValidResultOneTicket(b) ==
    [type |-> "success", title |-> "validTicket",
     message |-> [text |-> "validTicket", ticketCount |-> 1,
                  price |-> PriceText(b.totalPrice)]]

ValidResult(b) ==
    [type |-> "success", title |-> "validTicket",
     message |-> [text |-> "validTicket", ticketCount |-> b.ticketCount,
                  price |-> PriceText(b.totalPrice)]]

ScanErrorResult ==
    [type |-> "error", title |-> "scanError",
     message |-> [text |-> "tryAgain", ticketCount |-> 0, price |-> NoPrice]]

\* Classify without the `if (!booking)` test: reading booking.status throws.
ClassifyNoNullCheck(bs, data) ==
    LET k == Find(bs, data) IN
    IF k = 0 THEN ScanErrorResult
    ELSE IF bs[k].status = "used" THEN UsedResult(bs[k])
    ELSE IF bs[k].status = "cancelled" THEN CancelledResult
    ELSE ValidResult(bs[k])

\* Classify without the test of the status cancelled.
ClassifyNoCancelledCheck(bs, data) ==
    LET k == Find(bs, data) IN
    IF k = 0 THEN InvalidResult
    ELSE IF bs[k].status = "used" THEN UsedResult(bs[k])
    ELSE ValidResult(bs[k])

\* The try block of processQRCode: the result it sets for `data` on `bs`.
Classify(bs, data) ==
    LET k == Find(bs, data) IN
    IF k = 0 THEN InvalidResult
    ELSE IF bs[k].status = "used" THEN UsedResult(bs[k])
    ELSE IF bs[k].status = "cancelled" THEN CancelledResult
    ELSE ValidResult(bs[k])

\* EventContext.markTicketAsUsed: the booking `id` gets the status used.
MarkTicketAsUsed(bs, id) ==
    [k \in 1..Len(bs) |->
        IF bs[k].id = id THEN [bs[k] EXCEPT !.status = "used"] ELSE bs[k]]

\* The value of lastOp: handler `name` ran on scanner i and ended with `outcome`.
Op(name, i, outcome) == [op |-> name, scanner |-> i, outcome |-> outcome]

\* The value of lastOp after a step that runs none of the three.
NoOp == Op("none", 0, "none")

\* ------------------------------------------------- localization: the domain
\* How many AsyncStorage.setItem calls may be in flight at once.
MaxSetItems == 2

\* AsyncStorage.getItem's null; no language tag is spelled like this.
Null == "null"

\* The keys of `translations`.
SupportedLanguages == {"ar", "en"}

\* Property names every object literal inherits from Object.prototype.
InheritedKeys == {"constructor"}

\* translations[language] is truthy: an own key, or an inherited property.
HasTranslations(language) == language \in SupportedLanguages \cup InheritedKeys

\* The arguments setLocale is called with.
LocaleArgs == {"ar", "en", "fr", "constructor"}

\* Localization.locale: ar-LY, en-US, fr-FR and the empty string.
DeviceLocales == {<< "ar", "LY" >>, << "en", "US" >>, << "fr", "FR" >>, << "" >>}

\* What the item 'language' may hold when the provider mounts.
StoredLanguages == {Null, "ar", "en", "fr", "constructor"}

\* Localization.locale.split('-')[0]
DeviceLanguage == deviceLocale[1]

\* translations[deviceLocale] ? deviceLocale : 'en'
SupportedLocale(language) ==
    IF HasTranslations(language) THEN language ELSE "en"

\* const isRTL = locale === 'ar'
IsRTL(locale) == locale = "ar"

\* The two providers as constructed, on a device with locale `dl` whose
\* storage holds `st`.
I18nInit(dl, st) ==
    /\ deviceLocale = dl
    /\ storedLanguage = st
    /\ providerA = [locale |-> "en",
                    i18nLocale |-> IF dl[1] # "" THEN dl[1] ELSE "en",
                    effectRan |-> FALSE]
    /\ providerB = [locale |-> "en", i18nLocale |-> "en",
                    load |-> "idle", savedLanguage |-> Null]
    /\ setItems = << >>
    /\ i18nHist = [lastSet |-> "none", early |-> FALSE, loadedFrom |-> "none"]

\* ----------------------------------------------- error boundary: the domain
\* How many errors componentDidCatch may log.
MaxLogged == 2

\* JavaScript's undefined
Undefined == "undefined"

\* The children prop.
ChildNodes == {"c1", "c2"}

\* The fallback prop: not given, null, or a node.
FallbackNodes == {Undefined, "null", "f1"}

\* What a child may throw.
Errors == {"e1", "e2"}

\* if (this.props.fallback)
IsTruthy(node) == node \notin {Undefined, "null"}

\* A render that shows the children whenever no fallback is given.
RenderChildrenWithoutFallback(state, props, dev) ==
    IF state.hasError /\ IsTruthy(props.fallback)
    THEN [view |-> "fallback", node |-> props.fallback, details |-> Undefined]
    ELSE [view |-> "children", node |-> props.children, details |-> Undefined]

\* render(): the fallback prop or the default error view while hasError,
\* the children otherwise
RenderBoundary(state, props, dev) ==
    IF state.hasError
    THEN IF IsTruthy(props.fallback)
         THEN [view |-> "fallback", node |-> props.fallback, details |-> Undefined]
         ELSE [view |-> "default", node |-> Undefined,
               details |-> IF dev /\ state.error # Undefined
                           THEN state.error ELSE Undefined]
    ELSE [view |-> "children", node |-> props.children, details |-> Undefined]

\* The boundary as constructed and first rendered.
BoundaryInit(dev, children, fallback) ==
    /\ boundaryState = [hasError |-> FALSE, error |-> Undefined]
    /\ boundaryProps = [children |-> children, fallback |-> fallback]
    /\ output = RenderBoundary([hasError |-> FALSE, error |-> Undefined],
                               [children |-> children, fallback |-> fallback], dev)
    /\ errorLog = << >>
    /\ isDev = dev
    /\ boundaryOp = "none"

\* ----------------------------------------------- secure storage: the domain
\* The keys data is stored under.
SecureKeys == {"token", "pin"}

\* The strings stored, as sequences of UTF-16 code units: the empty string,
\* "a", "é", "a€" and a lone high surrogate.
SecureValues == {<< >>, << 97 >>, << 233 >>, << 97, 8364 >>, << 55296 >>}

\* null, and a string, as getItem returns them.
NoItem == [present |-> FALSE, data |-> << >>]

Item(data) == [present |-> TRUE, data |-> data]

\* encodeURIComponent throws a URIError on a lone surrogate.
IsWellFormed(s) == \A k \in 1..Len(s) : s[k] \notin 55296..57343

\* unescape(encodeURIComponent(s)): the UTF-8 bytes of s, one character each
RECURSIVE Utf8Encode(_)
Utf8Encode(s) ==
    IF s = << >> THEN << >>
    ELSE LET c == Head(s)
             bytes == IF c < 128 THEN << c >>
                      ELSE IF c < 2048 THEN << 192 + (c \div 64), 128 + (c % 64) >>
                      ELSE << 224 + (c \div 4096), 128 + ((c \div 64) % 64),
                              128 + (c % 64) >>
         IN  bytes \o Utf8Encode(Tail(s))

\* decodeURIComponent(escape(bytes)): the string whose UTF-8 bytes these are
RECURSIVE Utf8Decode(_)
Utf8Decode(b) ==
    IF b = << >> THEN << >>
    ELSE IF b[1] < 128 THEN << b[1] >> \o Utf8Decode(SubSeq(b, 2, Len(b)))
    ELSE IF b[1] < 224
         THEN << (b[1] - 192) * 64 + (b[2] - 128) >>
              \o Utf8Decode(SubSeq(b, 3, Len(b)))
    ELSE << (b[1] - 224) * 4096 + (b[2] - 128) * 64 + (b[3] - 128) >>
         \o Utf8Decode(SubSeq(b, 4, Len(b)))

\* btoa: base64, as the indices of its digits, 64 for the padding '='
RECURSIVE Btoa(_)
Btoa(b) ==
    IF b = << >> THEN << >>
    ELSE IF Len(b) = 1
         THEN << b[1] \div 4, (b[1] % 4) * 16, 64, 64 >>
    ELSE IF Len(b) = 2
         THEN << b[1] \div 4, (b[1] % 4) * 16 + (b[2] \div 16), (b[2] % 16) * 4, 64 >>
    ELSE << b[1] \div 4, (b[1] % 4) * 16 + (b[2] \div 16),
            (b[2] % 16) * 4 + (b[3] \div 64), b[3] % 64 >>
         \o Btoa(SubSeq(b, 4, Len(b)))

\* atob
RECURSIVE Atob(_)
Atob(x) ==
    IF x = << >> THEN << >>
    ELSE IF x[3] = 64 THEN << x[1] * 4 + (x[2] \div 16) >>
    ELSE IF x[4] = 64
         THEN << x[1] * 4 + (x[2] \div 16), (x[2] % 16) * 16 + (x[3] \div 4) >>
    ELSE << x[1] * 4 + (x[2] \div 16), (x[2] % 16) * 16 + (x[3] \div 4),
            (x[3] % 4) * 64 + x[4] >>
         \o Atob(SubSeq(x, 5, Len(x)))

\* encryptData: base64 of the UTF-8 bytes on web, the data itself elsewhere
EncryptData(platform, data) ==
    IF platform = "web" THEN Btoa(Utf8Encode(data)) ELSE data

\* decryptData
DecryptData(platform, encryptedData) ==
    IF platform = "web" THEN Utf8Decode(Atob(encryptedData)) ELSE encryptedData

\* What a step of the secure storage ran, on which key, and how it ended.
StorageOp(name, key, outcome) == [op |-> name, key |-> key, outcome |-> outcome]

\* An empty storage on the given platform.
StorageInit(platform) ==
    /\ os = platform
    /\ items = [k \in SecureKeys |-> NoItem]
    /\ expected = [k \in SecureKeys |-> NoItem]
    /\ lastGet = [key |-> "none", result |-> NoItem]
    /\ storageOp = StorageOp("none", "none", "none")

\* ---------------------------------------------- user-data export: the domain
\* JavaScript values, by their type and, for a number, its decimal digits,
\* for a string, its UTF-16 code units.
JsUndefined == [t |-> "undefined", v |-> << >>]

JsNull == [t |-> "null", v |-> << >>]

JsNaN == [t |-> "NaN", v |-> << >>]

JsNumber(digits) == [t |-> "number", v |-> digits]

JsString(s) == [t |-> "string", v |-> s]

\* The data exported: undefined, null, NaN, 7, 42, "a", the string of one
\* double quote, and "é\".
ExportData ==
    {JsUndefined, JsNull, JsNaN, JsNumber(<< 7 >>), JsNumber(<< 4, 2 >>),
     JsString(<< 97 >>), JsString(<< 34 >>), JsString(<< 233, 92 >>)}

\* The passwords: "a", "é", "€", a lone high surrogate and U+FFFD.
Passwords == {<< 97 >>, << 233 >>, << 8364 >>, << 55296 >>, << 65533 >>}

\* Math.random().toString(36).substring(2, 18): "" when Math.random() gives
\* 0, "i" for 0.5, "29" for 0.0625.
RandomSalts == {<< >>, << 105 >>, << 50, 57 >>}

\* The first 16 hexadecimal digits of a SHA-256 digest.
DigestSalts ==
    {[k \in 1..16 |-> 51], [k \in 1..16 |-> IF k % 2 = 1 THEN 97 ELSE 48]}

\* undefined where a string is expected; Item(s) is the string s.
NoString == [present |-> FALSE, data |-> << >>]

\* The code units of "undefined" and of "null".
UndefinedText == << 117, 110, 100, 101, 102, 105, 110, 101, 100 >>

NullText == << 110, 117, 108, 108 >>

\* String(x) for a string or undefined x.
StringOf(x) == IF x.present THEN x.data ELSE UndefinedText

\* JSON.stringify's quoting of a string's characters: the double quote and the
\* backslash get a backslash in front.
RECURSIVE QuoteJSONString(_)
QuoteJSONString(s) ==
    IF s = << >> THEN << >>
    ELSE (IF Head(s) \in {34, 92} THEN << 92, Head(s) >> ELSE << Head(s) >>)
         \o QuoteJSONString(Tail(s))

\* JSON.stringify(value): undefined for undefined, "null" for null and NaN,
\* the digits of a number, the quoted characters of a string.
JsonStringify(value) ==
    CASE value.t = "undefined" -> NoString
      [] value.t \in {"null", "NaN"} -> Item(NullText)
      [] value.t = "number" -> Item([k \in 1..Len(value.v) |-> 48 + value.v[k]])
      [] value.t = "string" -> Item(<< 34 >> \o QuoteJSONString(value.v) \o << 34 >>)

\* The characters between the quotes of a JSON string are well formed: no
\* bare double quote, and each backslash is followed by a double quote or a
\* backslash.
RECURSIVE IsJSONStringBody(_)
IsJSONStringBody(s) ==
    IF s = << >> THEN TRUE
    ELSE IF Head(s) = 34 THEN FALSE
    ELSE IF Head(s) = 92
         THEN /\ Len(s) >= 2
              /\ s[2] \in {34, 92}
              /\ IsJSONStringBody(SubSeq(s, 3, Len(s)))
    ELSE IsJSONStringBody(Tail(s))

\* The string a well-formed body stands for.
RECURSIVE UnquoteJSONString(_)
UnquoteJSONString(s) ==
    IF s = << >> THEN << >>
    ELSE IF Head(s) = 92
         THEN << s[2] >> \o UnquoteJSONString(SubSeq(s, 3, Len(s)))
    ELSE << Head(s) >> \o UnquoteJSONString(Tail(s))

\* JSON.parse(text): the value, or a SyntaxError.  The text is converted to
\* a string first, so undefined is parsed as "undefined".
JsonParse(text) ==
    LET s == StringOf(text)
        IsNumber == /\ s # << >>
                    /\ \A k \in 1..Len(s) : s[k] \in 48..57
                    /\ Len(s) > 1 => s[1] # 48
        IsString == /\ Len(s) >= 2
                    /\ s[1] = 34
                    /\ s[Len(s)] = 34
                    /\ IsJSONStringBody(SubSeq(s, 2, Len(s) - 1))
    IN  IF s = NullText THEN [ok |-> TRUE, value |-> JsNull]
        ELSE IF IsNumber
             THEN [ok |-> TRUE,
                   value |-> JsNumber([k \in 1..Len(s) |-> s[k] - 48])]
        ELSE IF IsString
             THEN [ok |-> TRUE,
                   value |-> JsString(UnquoteJSONString(SubSeq(s, 2, Len(s) - 1)))]
        ELSE [ok |-> FALSE, value |-> JsUndefined]

\* The base64 alphabet: the character of a digit, and back.
Base64Char(i) ==
    IF i < 26 THEN 65 + i
    ELSE IF i < 52 THEN 97 + (i - 26)
    ELSE IF i < 62 THEN 48 + (i - 52)
    ELSE IF i = 62 THEN 43
    ELSE IF i = 63 THEN 47
    ELSE 61

Base64Digit(c) == CHOOSE i \in 0..64 : Base64Char(i) = c

\* What JSON.parse gives for a string property that JSON.stringify wrote.
EnvelopeString(s) == JsonParse(JsonStringify(JsString(s))).value.v

\* new TextEncoder().encode(s): the UTF-8 bytes, U+FFFD for a lone surrogate
TextEncode(s) ==
    Utf8Encode([k \in 1..Len(s) |-> IF s[k] \in 55296..57343 THEN 65533 ELSE s[k]])

\* A SHA-256 digest of bytes or of a string, taken to be free of collisions:
\* the digest stands for what was hashed.
Sha256(input) == [alg |-> "SHA-256", of |-> input]

\* btoa throws an InvalidCharacterError on a character above U+00FF.
IsLatin1(s) == \A k \in 1..Len(s) : s[k] <= 255

\* hashPassword(password, salt), `random` being the salt it would generate.
HashPassword(platform, crypto, password, salt, random) ==
    LET passwordSalt == IF salt.present /\ salt.data # << >>
                        THEN salt.data ELSE random
        salted == password \o passwordSalt
    IN  IF platform = "web"
        THEN [ok |-> TRUE, hash |-> Sha256(TextEncode(salted)),
              salt |-> passwordSalt]
        ELSE IF crypto
             THEN [ok |-> TRUE, hash |-> Sha256(salted), salt |-> passwordSalt]
        ELSE IF IsLatin1(salted)
             THEN [ok |-> TRUE, hash |-> [alg |-> "btoa", of |-> Btoa(salted)],
                   salt |-> passwordSalt]
        ELSE [ok |-> FALSE, hash |-> [alg |-> "none", of |-> << >>],
              salt |-> passwordSalt]

\* verifyPassword(password, hash, salt)
VerifyPassword(platform, crypto, password, hash, salt, random) ==
    LET new == HashPassword(platform, crypto, password, Item(salt), random)
    IN  new.ok /\ new.hash = hash

\* The salts hashPassword may generate.
GeneratedSalts(platform, crypto) ==
    IF platform # "web" /\ crypto THEN DigestSalts ELSE RandomSalts

\* No call yet.
NoExportCall ==
    [data |-> JsUndefined, password |-> << >>, outcome |-> "none",
     envelope |-> [data |-> NoString, salt |-> << >>,
                   hash |-> [alg |-> "none", of |-> << >>]]]

NoImportCall == [password |-> << >>, outcome |-> "none", value |-> JsUndefined]

\* Nothing exported yet; Crypto is null on web.
ExportInit(crypto) ==
    /\ hasCrypto = crypto
    /\ exportCall = NoExportCall
    /\ importCall = NoImportCall

\* -------------------------------------------------------------------- Init
Init ==
    /\ \E st1 \in Statuses, st2 \in Statuses :
          /\ store = InitialBookings(st1, st2)
          /\ bookings = [i \in Scanners |-> InitialBookings(st1, st2)]
    /\ scanned = [i \in Scanners |-> FALSE]
    /\ scanResult = [i \in Scanners |-> NoResult]
    /\ manualQRCode = [i \in Scanners |-> EmptyCode]
    /\ lastScannedCode = [i \in Scanners |-> EmptyCode]
    /\ scanTimeout = [i \in Scanners |-> FALSE]
    /\ alert = [i \in Scanners |-> "none"]
    /\ successCount = [b \in BookingIds |-> 0]
    /\ lastOp = NoOp
    /\ mounted = [i \in Scanners |-> TRUE]
    /\ isBusinessAccount = [i \in Scanners |-> TRUE]
    /\ I18nInit(<< "en", "US" >>, Null)
    /\ BoundaryInit(FALSE, "c1", Undefined)
    /\ StorageInit("native")
    /\ ExportInit(FALSE)

\* A render that shows the scanner to every account.
ScannerShownToAnyAccount(i) == mounted[i]

\* The scanner's own view is rendered: the screen is mounted and the render
\* did not return the unauthorized view.
ScannerShown(i) == mounted[i] /\ isBusinessAccount[i]

\* ----------------------------------------------------------------- actions
\* processQRCode that rejects the code it processed last.
ProcessQRCodeRepeatRejected(i, data, throws) ==
    /\ scanned' = [scanned EXCEPT ![i] = TRUE]
    /\ lastScannedCode' = [lastScannedCode EXCEPT ![i] = data]
    /\ scanResult' = [scanResult EXCEPT ![i] =
                         IF throws THEN ScanErrorResult
                         ELSE IF data = lastScannedCode[i] THEN InvalidResult
                         ELSE Classify(bookings[i], data)]
    /\ UNCHANGED << store, bookings, successCount >>

\* processQRCode without its catch block: a throw leaves the result as it was.
ProcessQRCodeNoCatch(i, data, throws) ==
    /\ scanned' = [scanned EXCEPT ![i] = TRUE]
    /\ lastScannedCode' = [lastScannedCode EXCEPT ![i] = data]
    /\ scanResult' = [scanResult EXCEPT ![i] =
                         IF throws THEN @ ELSE Classify(bookings[i], data)]
    /\ UNCHANGED << store, bookings, successCount >>

\* processQRCode that redeems a valid ticket at once.
ProcessQRCodeAutoCommit(i, data, throws) ==
    /\ scanned' = [scanned EXCEPT ![i] = TRUE]
    /\ lastScannedCode' = [lastScannedCode EXCEPT ![i] = data]
    /\ scanResult' = [scanResult EXCEPT ![i] =
                         IF throws THEN ScanErrorResult
                         ELSE Classify(bookings[i], data)]
    /\ store' = IF ~throws /\ Classify(bookings[i], data).type = "success"
                THEN MarkTicketAsUsed(store, bookings[i][Find(bookings[i], data)].id)
                ELSE store
    /\ UNCHANGED << bookings, successCount >>

\* processQRCode(data) on scanner i; `throws` is whether the lookup throws.
ProcessQRCode(i, data, throws) ==
    /\ scanned' = [scanned EXCEPT ![i] = TRUE]
    /\ lastScannedCode' = [lastScannedCode EXCEPT ![i] = data]
    /\ scanResult' = [scanResult EXCEPT ![i] =
                         IF throws THEN ScanErrorResult
                         ELSE Classify(bookings[i], data)]
    /\ UNCHANGED << store, bookings, successCount >>

\* resetScanner that keeps the remembered code.
ResetScannerKeepsCode(i) ==
    /\ scanned' = [scanned EXCEPT ![i] = FALSE]
    /\ scanResult' = [scanResult EXCEPT ![i] = NoResult]
    /\ lastScannedCode' = lastScannedCode
    /\ manualQRCode' = [manualQRCode EXCEPT ![i] = EmptyCode]
    /\ scanTimeout' = [scanTimeout EXCEPT ![i] = TRUE]

\* resetScanner() on scanner i
ResetScanner(i) ==
    /\ scanned' = [scanned EXCEPT ![i] = FALSE]
    /\ scanResult' = [scanResult EXCEPT ![i] = NoResult]
    /\ lastScannedCode' = [lastScannedCode EXCEPT ![i] = EmptyCode]
    /\ manualQRCode' = [manualQRCode EXCEPT ![i] = EmptyCode]
    /\ scanTimeout' = [scanTimeout EXCEPT ![i] = TRUE]

\* The re-render of scanner i: useEvents() hands it the store's bookings.
Render(i) ==
    /\ mounted[i]
    /\ bookings[i] # store
    /\ bookings' = [bookings EXCEPT ![i] = store]
    /\ lastOp' = NoOp
    /\ UNCHANGED << store, scanned, scanResult, manualQRCode, lastScannedCode,
                    scanTimeout, alert, successCount >>
    /\ UNCHANGED << screenVars, nonScannerVars >>

\* A duplicate-scan guard that runs after the code was remembered.
HandleBarCodeScannedDropRemembers(i, data) ==
    /\ ScannerShown(i)
    /\ Platform[i] = "native"
    /\ scanned[i] \/ data = lastScannedCode[i]
    /\ lastScannedCode' = [lastScannedCode EXCEPT ![i] = data]
    /\ lastOp' = NoOp
    /\ UNCHANGED << store, bookings, scanned, scanResult, manualQRCode,
                    scanTimeout, alert, successCount >>
    /\ UNCHANGED << screenVars, nonScannerVars >>

\* The camera delivers `data` while the scanner must drop it.
HandleBarCodeScannedDrop(i, data) ==
    /\ ScannerShown(i)
    /\ Platform[i] = "native"
    /\ scanned[i] \/ data = lastScannedCode[i]
    /\ lastOp' = NoOp
    /\ UNCHANGED << store, bookings, scanned, scanResult, manualQRCode,
                    lastScannedCode, scanTimeout, alert, successCount >>
    /\ UNCHANGED << screenVars, nonScannerVars >>

\* The camera delivers `data` and the scanner processes it.
HandleBarCodeScanned(i, data, throws) ==
    /\ ScannerShown(i)
    /\ Platform[i] = "native"
    /\ ~(scanned[i] \/ data = lastScannedCode[i])
    /\ scanTimeout' = [scanTimeout EXCEPT ![i] = FALSE]
    /\ ProcessQRCode(i, data, throws)
    /\ lastOp' = Op("processQRCode", i, IF throws THEN "threw" ELSE "classified")
    /\ UNCHANGED << manualQRCode, alert >>
    /\ UNCHANGED << screenVars, nonScannerVars >>

\* The user edits the manual-entry field (TextInput onChangeText).
SetManualQRCode(i, text) ==
    /\ ScannerShown(i)
    /\ Platform[i] = "web"
    /\ alert[i] = "none"
    /\ text # manualQRCode[i]
    /\ manualQRCode' = [manualQRCode EXCEPT ![i] = text]
    /\ lastOp' = NoOp
    /\ UNCHANGED << store, bookings, scanned, scanResult, lastScannedCode,
                    scanTimeout, alert, successCount >>
    /\ UNCHANGED << screenVars, nonScannerVars >>

\* An empty-input rejection that has already disabled scanning.
HandleManualQRSubmitEmptyDisables(i) ==
    /\ ScannerShown(i)
    /\ Platform[i] = "web"
    /\ alert[i] = "none"
    /\ Trim(manualQRCode[i]) = EmptyCode
    /\ alert' = [alert EXCEPT ![i] = "emptyInput"]
    /\ scanned' = [scanned EXCEPT ![i] = TRUE]
    /\ lastOp' = NoOp
    /\ UNCHANGED << store, bookings, scanResult, manualQRCode,
                    lastScannedCode, scanTimeout, successCount >>
    /\ UNCHANGED << screenVars, nonScannerVars >>

\* handleManualQRSubmit with an input that trims to the empty string
HandleManualQRSubmitEmpty(i) ==
    /\ ScannerShown(i)
    /\ Platform[i] = "web"
    /\ alert[i] = "none"
    /\ Trim(manualQRCode[i]) = EmptyCode
    /\ alert' = [alert EXCEPT ![i] = "emptyInput"]
    /\ lastOp' = NoOp
    /\ UNCHANGED << store, bookings, scanned, scanResult, manualQRCode,
                    lastScannedCode, scanTimeout, successCount >>
    /\ UNCHANGED << screenVars, nonScannerVars >>

\* handleManualQRSubmit that passes the typed text on as it stands.
HandleManualQRSubmitRaw(i, throws) ==
    /\ ScannerShown(i)
    /\ Platform[i] = "web"
    /\ alert[i] = "none"
    /\ Trim(manualQRCode[i]) # EmptyCode
    /\ ProcessQRCode(i, manualQRCode[i], throws)
    /\ lastOp' = Op("processQRCode", i, IF throws THEN "threw" ELSE "classified")
    /\ UNCHANGED << manualQRCode, scanTimeout, alert >>
    /\ UNCHANGED << screenVars, nonScannerVars >>

\* handleManualQRSubmit with an input that does not trim to the empty string
HandleManualQRSubmit(i, throws) ==
    /\ ScannerShown(i)
    /\ Platform[i] = "web"
    /\ alert[i] = "none"
    /\ Trim(manualQRCode[i]) # EmptyCode
    /\ ProcessQRCode(i, Trim(manualQRCode[i]), throws)
    /\ lastOp' = Op("processQRCode", i, IF throws THEN "threw" ELSE "classified")
    /\ UNCHANGED << manualQRCode, scanTimeout, alert >>
    /\ UNCHANGED << screenVars, nonScannerVars >>

\* The confirm button shown with every result.
ConfirmOfferedAnyResult(i) == scanResult[i] # NoResult

\* The result modal offers the confirm button.
ConfirmOffered(i) == scanResult[i].type = "success"

\* How many commits were reported as successful so far.
TotalSuccess == successCount["b1"] + successCount["b2"]

\* confirmEntry that looks for a confirmed booking, whatever its code.
ConfirmTargetFirstConfirmed(i) ==
    IF \E k \in 1..Len(bookings[i]) : bookings[i][k].status = "confirmed"
    THEN CHOOSE k \in 1..Len(bookings[i]) :
            /\ bookings[i][k].status = "confirmed"
            /\ \A j \in 1..(k - 1) : bookings[i][j].status # "confirmed"
    ELSE 0

\* The booking confirmEntry finds on scanner i: its index in bookings[i], 0 if none.
ConfirmTarget(i) == Find(bookings[i], lastScannedCode[i])

\* Whether confirmEntry on scanner i passes its status test.
ConfirmGuard(i) ==
    /\ ConfirmTarget(i) # 0
    /\ bookings[i][ConfirmTarget(i)].status = "confirmed"

\* confirmEntry: the guard passes and markTicketAsUsed resolves.
ConfirmEntry(i) ==
    /\ ScannerShown(i)
    /\ ConfirmOffered(i)
    /\ alert[i] = "none"
    /\ ConfirmGuard(i)
    /\ LET id == bookings[i][ConfirmTarget(i)].id IN
          /\ TotalSuccess < MaxCommits
          /\ store' = MarkTicketAsUsed(store, id)
          /\ successCount' = [successCount EXCEPT ![id] = @ + 1]
          /\ lastOp' = Op("confirmEntry", i, "success")
    /\ alert' = [alert EXCEPT ![i] = "success"]
    /\ UNCHANGED << bookings, scanned, scanResult, manualQRCode,
                    lastScannedCode, scanTimeout >>
    /\ UNCHANGED << screenVars, nonScannerVars >>

\* confirmEntry whose catch block shows the alert and does not reset.
ConfirmEntryThrowsNoReset(i) ==
    /\ ScannerShown(i)
    /\ ConfirmOffered(i)
    /\ alert[i] = "none"
    /\ ConfirmGuard(i)
    /\ alert' = [alert EXCEPT ![i] = "failure"]
    /\ lastOp' = Op("confirmEntry", i, "failed")
    /\ UNCHANGED << store, bookings, successCount, scanned, scanResult,
                    manualQRCode, lastScannedCode, scanTimeout >>
    /\ UNCHANGED << screenVars, nonScannerVars >>

\* confirmEntry: the guard passes and markTicketAsUsed throws.
ConfirmEntryThrows(i) ==
    /\ ScannerShown(i)
    /\ ConfirmOffered(i)
    /\ alert[i] = "none"
    /\ ConfirmGuard(i)
    /\ alert' = [alert EXCEPT ![i] = "failure"]
    /\ ResetScanner(i)
    /\ lastOp' = Op("confirmEntry", i, "failed")
    /\ UNCHANGED << store, bookings, successCount >>
    /\ UNCHANGED << screenVars, nonScannerVars >>

\* confirmEntry: no booking has the code, or its status is not confirmed.
ConfirmEntrySkipped(i) ==
    /\ ScannerShown(i)
    /\ ConfirmOffered(i)
    /\ alert[i] = "none"
    /\ ~ConfirmGuard(i)
    /\ lastOp' = Op("confirmEntry", i, "skipped")
    /\ UNCHANGED << store, bookings, scanned, scanResult, manualQRCode,
                    lastScannedCode, scanTimeout, alert, successCount >>
    /\ UNCHANGED << screenVars, nonScannerVars >>

\* The user presses a reset button of the result modal.
ResetPressed(i) ==
    /\ ScannerShown(i)
    /\ scanResult[i] # NoResult
    /\ alert[i] = "none"
    /\ ResetScanner(i)
    /\ lastOp' = Op("resetScanner", i, "pressed")
    /\ UNCHANGED << store, bookings, alert, successCount >>
    /\ UNCHANGED << screenVars, nonScannerVars >>

\* The user presses the button of the success alert: onPress is resetScanner.
AlertOkPressed(i) ==
    /\ alert[i] = "success"
    /\ alert' = [alert EXCEPT ![i] = "none"]
    /\ ResetScanner(i)
    /\ lastOp' = Op("resetScanner", i, "alertOk")
    /\ UNCHANGED << store, bookings, successCount >>
    /\ UNCHANGED << screenVars, nonScannerVars >>

\* The user dismisses an alert that has no onPress.
AlertDismissed(i) ==
    /\ alert[i] \in {"failure", "emptyInput"}
    /\ alert' = [alert EXCEPT ![i] = "none"]
    /\ lastOp' = NoOp
    /\ UNCHANGED << store, bookings, scanned, scanResult, manualQRCode,
                    lastScannedCode, scanTimeout, successCount >>
    /\ UNCHANGED << screenVars, nonScannerVars >>

\* The timer resetScanner set fires: setScanned(false).
ScanTimeoutFires(i) ==
    /\ scanTimeout[i]
    /\ scanTimeout' = [scanTimeout EXCEPT ![i] = FALSE]
    /\ scanned' = [scanned EXCEPT ![i] = FALSE]
    /\ lastOp' = NoOp
    /\ UNCHANGED << store, bookings, scanResult, manualQRCode,
                    lastScannedCode, alert, successCount >>
    /\ UNCHANGED << screenVars, nonScannerVars >>

Next ==
    \/ \E i \in Scanners : Render(i)
    \/ \E i \in Scanners, d \in CameraCodes : HandleBarCodeScannedDrop(i, d)
    \/ \E i \in Scanners, d \in CameraCodes, th \in BOOLEAN : HandleBarCodeScanned(i, d, th)
    \/ \E i \in Scanners, text \in ManualInputs : SetManualQRCode(i, text)
    \/ \E i \in Scanners : HandleManualQRSubmitEmpty(i)
    \/ \E i \in Scanners, th \in BOOLEAN : HandleManualQRSubmit(i, th)
    \/ \E i \in Scanners : ConfirmEntry(i)
    \/ \E i \in Scanners : ConfirmEntryThrows(i)
    \/ \E i \in Scanners : ConfirmEntrySkipped(i)
    \/ \E i \in Scanners : ResetPressed(i)
    \/ \E i \in Scanners : AlertOkPressed(i)
    \/ \E i \in Scanners : AlertDismissed(i)
    \/ \E i \in Scanners : ScanTimeoutFires(i)

Spec == Init /\ [][Next]_vars

\* ----------------------------------------------------- the lookup on its own
\* Scanning and typing only, over codes that differ from a booking's qrCode in
\* letter case or in surrounding white space.
LookupCameraCodes == {CodeA, <<"a">>, <<"A", " ">>, <<" ", "B">>, CodeZ}

LookupManualInputs == {EmptyCode, <<" ">>, CodeA, <<"b">>, <<" ", "B">>, <<"A", " ">>}

NextLookup ==
    \/ \E i \in Scanners, d \in LookupCameraCodes : HandleBarCodeScannedDrop(i, d)
    \/ \E i \in Scanners, d \in LookupCameraCodes, th \in BOOLEAN :
          HandleBarCodeScanned(i, d, th)
    \/ \E i \in Scanners, text \in LookupManualInputs : SetManualQRCode(i, text)
    \/ \E i \in Scanners : HandleManualQRSubmitEmpty(i)
    \/ \E i \in Scanners, th \in BOOLEAN : HandleManualQRSubmit(i, th)
    \/ \E i \in Scanners : ResetPressed(i)
    \/ \E i \in Scanners : AlertDismissed(i)
    \/ \E i \in Scanners : ScanTimeoutFires(i)

SpecLookup == Init /\ [][NextLookup]_vars

\* ------------------------------------- the screen: mounting and the account
\* An unmount that leaves the reset timer running.
UnmountKeepsTimer(i) ==
    /\ mounted' = [mounted EXCEPT ![i] = FALSE]
    /\ scanTimeout' = scanTimeout
    /\ lastOp' = Op("unmount", i, IF scanTimeout[i] THEN "timerCleared" ELSE "noTimer")
    /\ UNCHANGED << store, bookings, scanned, scanResult, manualQRCode,
                    lastScannedCode, successCount, isBusinessAccount >>
    /\ UNCHANGED nonScannerVars

\* The screen unmounts: the cleanup effect clears the timer of scanTimeoutRef.
Unmount(i) ==
    /\ mounted' = [mounted EXCEPT ![i] = FALSE]
    /\ scanTimeout' = [scanTimeout EXCEPT ![i] = FALSE]
    /\ lastOp' = Op("unmount", i, IF scanTimeout[i] THEN "timerCleared" ELSE "noTimer")
    /\ UNCHANGED << store, bookings, scanned, scanResult, manualQRCode,
                    lastScannedCode, successCount, isBusinessAccount >>
    /\ UNCHANGED nonScannerVars

\* The back button of the scanner's header: router.back()
BackPressed(i) ==
    /\ ScannerShown(i)
    /\ alert[i] = "none"
    /\ Unmount(i)
    /\ UNCHANGED alert

\* The button of the unauthorized alert: router.back()
UnauthorizedBackPressed(i) ==
    /\ mounted[i]
    /\ alert[i] = "unauthorized"
    /\ alert' = [alert EXCEPT ![i] = "none"]
    /\ Unmount(i)

\* The screen mounts: fresh state, the current bookings, and the effect that
\* alerts an account that is no business account.
Mount(i) ==
    /\ ~mounted[i]
    /\ mounted' = [mounted EXCEPT ![i] = TRUE]
    /\ bookings' = [bookings EXCEPT ![i] = store]
    /\ scanned' = [scanned EXCEPT ![i] = FALSE]
    /\ scanResult' = [scanResult EXCEPT ![i] = NoResult]
    /\ manualQRCode' = [manualQRCode EXCEPT ![i] = EmptyCode]
    /\ lastScannedCode' = [lastScannedCode EXCEPT ![i] = EmptyCode]
    /\ scanTimeout' = [scanTimeout EXCEPT ![i] = FALSE]
    /\ alert' = [alert EXCEPT ![i] =
                     IF isBusinessAccount[i] THEN "none" ELSE "unauthorized"]
    /\ lastOp' = NoOp
    /\ UNCHANGED << store, successCount, isBusinessAccount >>
    /\ UNCHANGED nonScannerVars

\* The account of scanner i gains or loses its business status; on a mounted
\* screen the effect runs again and alerts an account that lost it.
AccountChanges(i) ==
    /\ alert[i] \in {"none", "unauthorized"}
    /\ isBusinessAccount' = [isBusinessAccount EXCEPT ![i] = ~@]
    /\ alert' = [alert EXCEPT ![i] =
                     IF mounted[i] /\ isBusinessAccount[i] THEN "unauthorized" ELSE @]
    /\ lastOp' = NoOp
    /\ UNCHANGED << store, bookings, scanned, scanResult, manualQRCode,
                    lastScannedCode, scanTimeout, successCount, mounted >>
    /\ UNCHANGED nonScannerVars

ScreenCameraCodes == {CodeA, CodeZ}

ScreenManualInputs == {EmptyCode, CodeA}

\* The screens as first mounted, for business accounts and others.
InitScreen ==
    /\ \E st1 \in Statuses, st2 \in Statuses :
          /\ store = InitialBookings(st1, st2)
          /\ bookings = [i \in Scanners |-> InitialBookings(st1, st2)]
    /\ scanned = [i \in Scanners |-> FALSE]
    /\ scanResult = [i \in Scanners |-> NoResult]
    /\ manualQRCode = [i \in Scanners |-> EmptyCode]
    /\ lastScannedCode = [i \in Scanners |-> EmptyCode]
    /\ scanTimeout = [i \in Scanners |-> FALSE]
    /\ mounted = [i \in Scanners |-> TRUE]
    /\ isBusinessAccount \in [Scanners -> BOOLEAN]
    /\ alert = [i \in Scanners |->
                   IF isBusinessAccount[i] THEN "none" ELSE "unauthorized"]
    /\ successCount = [b \in BookingIds |-> 0]
    /\ lastOp = NoOp
    /\ I18nInit(<< "en", "US" >>, Null)
    /\ BoundaryInit(FALSE, "c1", Undefined)
    /\ StorageInit("native")
    /\ ExportInit(FALSE)

NextScreen ==
    \/ \E i \in Scanners : Mount(i)
    \/ \E i \in Scanners : BackPressed(i)
    \/ \E i \in Scanners : UnauthorizedBackPressed(i)
    \/ \E i \in Scanners : AccountChanges(i)
    \/ \E i \in Scanners : Render(i)
    \/ \E i \in Scanners, d \in ScreenCameraCodes : HandleBarCodeScannedDrop(i, d)
    \/ \E i \in Scanners, d \in ScreenCameraCodes, th \in BOOLEAN :
          HandleBarCodeScanned(i, d, th)
    \/ \E i \in Scanners, text \in ScreenManualInputs : SetManualQRCode(i, text)
    \/ \E i \in Scanners : HandleManualQRSubmitEmpty(i)
    \/ \E i \in Scanners, th \in BOOLEAN : HandleManualQRSubmit(i, th)
    \/ \E i \in Scanners : ConfirmEntry(i)
    \/ \E i \in Scanners : ConfirmEntryThrows(i)
    \/ \E i \in Scanners : ConfirmEntrySkipped(i)
    \/ \E i \in Scanners : ResetPressed(i)
    \/ \E i \in Scanners : AlertOkPressed(i)
    \/ \E i \in Scanners : AlertDismissed(i)
    \/ \E i \in Scanners : ScanTimeoutFires(i)

SpecScreen == InitScreen /\ [][NextScreen]_vars

\* The scanner screens as constructed, over bookings that are all confirmed.
ScannerIdle ==
    /\ store = InitialBookings("confirmed", "confirmed")
    /\ bookings = [i \in Scanners |-> InitialBookings("confirmed", "confirmed")]
    /\ scanned = [i \in Scanners |-> FALSE]
    /\ scanResult = [i \in Scanners |-> NoResult]
    /\ manualQRCode = [i \in Scanners |-> EmptyCode]
    /\ lastScannedCode = [i \in Scanners |-> EmptyCode]
    /\ scanTimeout = [i \in Scanners |-> FALSE]
    /\ alert = [i \in Scanners |-> "none"]
    /\ successCount = [b \in BookingIds |-> 0]
    /\ lastOp = NoOp
    /\ mounted = [i \in Scanners |-> TRUE]
    /\ isBusinessAccount = [i \in Scanners |-> TRUE]

\* ------------------------------------------- the two localization providers
\* Both providers have set their initial locale.
Initialised == providerA.effectRan /\ providerB.load = "done"

\* Provider A: the mount effect sets the device language, 'en' if unsupported.
EffectA ==
    /\ ~providerA.effectRan
    /\ providerA' = [providerA EXCEPT !.locale = SupportedLocale(DeviceLanguage),
                                      !.i18nLocale = SupportedLocale(DeviceLanguage),
                                      !.effectRan = TRUE]
    /\ UNCHANGED << deviceLocale, storedLanguage, providerB, setItems, i18nHist >>
    /\ UNCHANGED nonI18nVars

\* Provider A: handleSetLocale(newLocale)
HandleSetLocaleA(newLocale) ==
    providerA' = [providerA EXCEPT !.locale = newLocale, !.i18nLocale = newLocale]

\* Provider B: changeLanguage(newLocale) up to its await
ChangeLanguage(newLocale) ==
    IF HasTranslations(newLocale)
    THEN /\ providerB' = [providerB EXCEPT !.locale = newLocale,
                                           !.i18nLocale = newLocale]
         /\ setItems' = Append(setItems, newLocale)
    ELSE UNCHANGED << providerB, setItems >>

\* Provider B: handleSetLocale(newLocale)
HandleSetLocaleB(newLocale) == ChangeLanguage(newLocale)

\* A consumer calls setLocale(newLocale); both providers receive the call.
SetLocale(newLocale) ==
    /\ Len(setItems) < MaxSetItems
    /\ HandleSetLocaleA(newLocale)
    /\ HandleSetLocaleB(newLocale)
    /\ i18nHist' = [i18nHist EXCEPT !.lastSet = newLocale,
                                    !.early = @ \/ ~Initialised]
    /\ UNCHANGED << deviceLocale, storedLanguage >>
    /\ UNCHANGED nonI18nVars

\* The oldest setItem in flight resolves: the language is stored.
SetItemResolves ==
    /\ setItems # << >>
    /\ storedLanguage' = Head(setItems)
    /\ setItems' = Tail(setItems)
    /\ UNCHANGED << deviceLocale, providerA, providerB, i18nHist >>
    /\ UNCHANGED nonI18nVars

\* The oldest setItem in flight rejects: changeLanguage's catch logs it.
SetItemRejects ==
    /\ setItems # << >>
    /\ setItems' = Tail(setItems)
    /\ UNCHANGED << deviceLocale, storedLanguage, providerA, providerB, i18nHist >>
    /\ UNCHANGED nonI18nVars

\* Provider B: the mount effect calls loadSavedLanguage, which calls getItem.
LoadSavedLanguage ==
    /\ providerB.load = "idle"
    /\ providerB' = [providerB EXCEPT !.load = "awaiting"]
    /\ UNCHANGED << deviceLocale, storedLanguage, providerA, setItems, i18nHist >>
    /\ UNCHANGED nonI18nVars

\* getItem('language') reads the storage and resolves.
GetItemResolves ==
    /\ providerB.load = "awaiting"
    /\ providerB' = [providerB EXCEPT !.load = "resuming",
                                      !.savedLanguage = storedLanguage]
    /\ UNCHANGED << deviceLocale, storedLanguage, providerA, setItems, i18nHist >>
    /\ UNCHANGED nonI18nVars

\* getItem('language') rejects: loadSavedLanguage's catch falls back to 'en'.
GetItemRejects ==
    /\ providerB.load = "awaiting"
    /\ providerB' = [providerB EXCEPT !.load = "done",
                                      !.locale = "en", !.i18nLocale = "en"]
    /\ i18nHist' = [i18nHist EXCEPT !.loadedFrom = "error"]
    /\ UNCHANGED << deviceLocale, storedLanguage, providerA, setItems >>
    /\ UNCHANGED nonI18nVars

\* loadSavedLanguage that falls back to 'en' whatever the device locale is.
LoadSavedLanguageResumeEnglish ==
    /\ providerB.load = "resuming"
    /\ LET saved == providerB.savedLanguage
           usable == saved # Null /\ HasTranslations(saved)
           language == IF usable THEN saved ELSE "en"
       IN  /\ providerB' = [providerB EXCEPT !.load = "done",
                                             !.locale = language,
                                             !.i18nLocale = language]
           /\ i18nHist' = [i18nHist EXCEPT !.loadedFrom =
                                             IF usable THEN "saved" ELSE "device"]
    /\ UNCHANGED << deviceLocale, storedLanguage, providerA, setItems >>
    /\ UNCHANGED nonI18nVars

\* loadSavedLanguage after its await: the saved language if it is supported,
\* else the device language, 'en' if that is unsupported.
LoadSavedLanguageResume ==
    /\ providerB.load = "resuming"
    /\ LET saved == providerB.savedLanguage
           usable == saved # Null /\ HasTranslations(saved)
           language == IF usable THEN saved ELSE SupportedLocale(DeviceLanguage)
       IN  /\ providerB' = [providerB EXCEPT !.load = "done",
                                             !.locale = language,
                                             !.i18nLocale = language]
           /\ i18nHist' = [i18nHist EXCEPT !.loadedFrom =
                                             IF usable THEN "saved" ELSE "device"]
    /\ UNCHANGED << deviceLocale, storedLanguage, providerA, setItems >>
    /\ UNCHANGED nonI18nVars

\* The two providers as constructed, on any device and storage content.
InitI18n ==
    /\ \E dl \in DeviceLocales, st \in StoredLanguages : I18nInit(dl, st)
    /\ ScannerIdle
    /\ BoundaryInit(FALSE, "c1", Undefined)
    /\ StorageInit("native")
    /\ ExportInit(FALSE)

NextI18n ==
    \/ EffectA
    \/ LoadSavedLanguage
    \/ GetItemResolves
    \/ GetItemRejects
    \/ LoadSavedLanguageResume
    \/ \E newLocale \in LocaleArgs : SetLocale(newLocale)
    \/ SetItemResolves
    \/ SetItemRejects

SpecI18n == InitI18n /\ [][NextI18n]_vars

\* -------------------------------------------------------- the error boundary
\* static getDerivedStateFromError(error)
GetDerivedStateFromError(error) == [hasError |-> TRUE, error |-> error]

\* Something the boundary rendered throws `error`: getDerivedStateFromError,
\* the render that follows, and componentDidCatch.
ChildThrows(error) ==
    /\ output.view \in {"children", "fallback"}
    /\ Len(errorLog) < MaxLogged
    /\ boundaryState' = GetDerivedStateFromError(error)
    /\ errorLog' = Append(errorLog, error)
    /\ output' = RenderBoundary(GetDerivedStateFromError(error), boundaryProps, isDev)
    /\ boundaryOp' = "caught"
    /\ UNCHANGED << boundaryProps, isDev >>
    /\ UNCHANGED nonBoundaryVars

\* The retry button of the default error view: handleRetry
HandleRetry ==
    /\ output.view = "default"
    /\ boundaryState' = [hasError |-> FALSE, error |-> Undefined]
    /\ output' = RenderBoundary([hasError |-> FALSE, error |-> Undefined],
                                boundaryProps, isDev)
    /\ boundaryOp' = "retry"
    /\ UNCHANGED << boundaryProps, errorLog, isDev >>
    /\ UNCHANGED nonBoundaryVars

\* The parent renders the boundary with other props.
SetProps(children, fallback) ==
    /\ boundaryProps # [children |-> children, fallback |-> fallback]
    /\ boundaryProps' = [children |-> children, fallback |-> fallback]
    /\ output' = RenderBoundary(boundaryState,
                                [children |-> children, fallback |-> fallback], isDev)
    /\ boundaryOp' = "props"
    /\ UNCHANGED << boundaryState, errorLog, isDev >>
    /\ UNCHANGED nonBoundaryVars

InitBoundary ==
    /\ \E dev \in BOOLEAN, c \in ChildNodes, f \in FallbackNodes :
          BoundaryInit(dev, c, f)
    /\ ScannerIdle
    /\ I18nInit(<< "en", "US" >>, Null)
    /\ StorageInit("native")
    /\ ExportInit(FALSE)

NextBoundary ==
    \/ \E e \in Errors : ChildThrows(e)
    \/ HandleRetry
    \/ \E c \in ChildNodes, f \in FallbackNodes : SetProps(c, f)

SpecBoundary == InitBoundary /\ [][NextBoundary]_vars

\* -------------------------------------------------------- the secure storage
\* storeSecureData(key, value) resolves.
StoreSecureData(key, value) ==
    /\ os = "web" => IsWellFormed(value)
    /\ items' = [items EXCEPT ![key] =
                     IF os = "web" THEN Item(EncryptData(os, value)) ELSE Item(value)]
    /\ expected' = [expected EXCEPT ![key] = Item(value)]
    /\ storageOp' = StorageOp("store", key, "resolved")
    /\ UNCHANGED << os, lastGet >>
    /\ UNCHANGED nonStorageVars

\* storeSecureData(key, value) throws: encryptData or the storage threw.
StoreSecureDataThrows(key, value) ==
    /\ storageOp' = StorageOp("store", key, "threw")
    /\ UNCHANGED << os, items, expected, lastGet >>
    /\ UNCHANGED nonStorageVars

\* getSecureData(key) returns what it read.
GetSecureData(key) ==
    /\ lastGet' = [key |-> key,
                   result |-> IF os = "web"
                              THEN IF ~items[key].present \/ items[key].data = << >>
                                   THEN NoItem
                                   ELSE Item(DecryptData(os, items[key].data))
                              ELSE items[key]]
    /\ storageOp' = StorageOp("get", key, "resolved")
    /\ UNCHANGED << os, items, expected >>
    /\ UNCHANGED nonStorageVars

\* getSecureData(key) whose read throws: the catch block returns null.
GetSecureDataCatches(key) ==
    /\ lastGet' = [key |-> key, result |-> NoItem]
    /\ storageOp' = StorageOp("get", key, "caught")
    /\ UNCHANGED << os, items, expected >>
    /\ UNCHANGED nonStorageVars

\* deleteSecureData(key) resolves.
DeleteSecureData(key) ==
    /\ items' = [items EXCEPT ![key] = NoItem]
    /\ expected' = [expected EXCEPT ![key] = NoItem]
    /\ storageOp' = StorageOp("delete", key, "resolved")
    /\ UNCHANGED << os, lastGet >>
    /\ UNCHANGED nonStorageVars

\* deleteSecureData(key) throws: the storage threw.
DeleteSecureDataThrows(key) ==
    /\ storageOp' = StorageOp("delete", key, "threw")
    /\ UNCHANGED << os, items, expected, lastGet >>
    /\ UNCHANGED nonStorageVars

InitStorage ==
    /\ \E platform \in {"web", "native"} : StorageInit(platform)
    /\ ScannerIdle
    /\ I18nInit(<< "en", "US" >>, Null)
    /\ BoundaryInit(FALSE, "c1", Undefined)
    /\ ExportInit(FALSE)

NextStorage ==
    \/ \E k \in SecureKeys, v \in SecureValues : StoreSecureData(k, v)
    \/ \E k \in SecureKeys, v \in SecureValues : StoreSecureDataThrows(k, v)
    \/ \E k \in SecureKeys : GetSecureData(k)
    \/ \E k \in SecureKeys : GetSecureDataCatches(k)
    \/ \E k \in SecureKeys : DeleteSecureData(k)
    \/ \E k \in SecureKeys : DeleteSecureDataThrows(k)

SpecStorage == InitStorage /\ [][NextStorage]_vars

\* ============================================ user-data export (securityUtils)
\* encryptUserData(data, password), `random` being the salt hashPassword
\* generates.  It resolves with the envelope { data, salt, hash } as JSON.parse
\* reads it back from the string returned, or throws when hashPassword or
\* encryptData threw.  On web encryptData converts undefined to "undefined";
\* elsewhere it returns it, and JSON.stringify leaves the property out.
EncryptUserData(data, password, random) ==
    LET jsonData == JsonStringify(data)
        hashed == HashPassword(os, hasCrypto, password, NoString, random)
        encrypts == os # "web" \/ IsWellFormed(StringOf(jsonData))
        encryptedData ==
            IF os = "web"
            THEN LET digits == EncryptData(os, StringOf(jsonData))
                 IN  Item([k \in 1..Len(digits) |-> Base64Char(digits[k])])
            ELSE jsonData
        envelope ==
            [data |-> IF encryptedData.present
                      THEN Item(EnvelopeString(encryptedData.data))
                      ELSE NoString,
             salt |-> EnvelopeString(hashed.salt),
             hash |-> hashed.hash]
    IN  /\ exportCall' =
               IF hashed.ok /\ encrypts
               THEN [data |-> data, password |-> password,
                     outcome |-> "resolved", envelope |-> envelope]
               ELSE [data |-> data, password |-> password,
                     outcome |-> "threw", envelope |-> NoExportCall.envelope]
        /\ importCall' = NoImportCall
        /\ UNCHANGED hasCrypto
        /\ UNCHANGED nonExportVars

\* decryptUserData(encryptedData, password) on the string the last
\* encryptUserData resolved with, `random` being the salt hashPassword
\* generates when it is given a falsy one.  It returns the parsed data, or
\* throws: the password is not valid, or decryptData or JSON.parse threw.
DecryptUserData(password, random) ==
    LET envelope == exportCall.envelope
        isValid == VerifyPassword(os, hasCrypto, password, envelope.hash,
                                  envelope.salt, random)
        decrypts == os # "web" \/ envelope.data.present
        decryptedJson ==
            IF os = "web"
            THEN LET chars == envelope.data.data
                 IN  Item(DecryptData(os, [k \in 1..Len(chars) |->
                                              Base64Digit(chars[k])]))
            ELSE envelope.data
        parsed == JsonParse(decryptedJson)
    IN  /\ exportCall.outcome = "resolved"
        /\ importCall' =
               IF isValid /\ decrypts /\ parsed.ok
               THEN [password |-> password, outcome |-> "returned",
                     value |-> parsed.value]
               ELSE [password |-> password, outcome |-> "threw",
                     value |-> JsUndefined]
        /\ UNCHANGED << hasCrypto, exportCall >>
        /\ UNCHANGED nonExportVars

\* Crypto stays null on web, and elsewhere when expo-crypto is not there.
InitExport ==
    /\ \E platform \in {"web", "native"}, crypto \in BOOLEAN :
          /\ platform = "web" => ~crypto
          /\ StorageInit(platform)
          /\ ExportInit(crypto)
    /\ ScannerIdle
    /\ I18nInit(<< "en", "US" >>, Null)
    /\ BoundaryInit(FALSE, "c1", Undefined)

NextExport ==
    \/ \E d \in ExportData, p \in Passwords, r \in GeneratedSalts(os, hasCrypto) :
          EncryptUserData(d, p, r)
    \/ \E q \in Passwords, r \in GeneratedSalts(os, hasCrypto) :
          DecryptUserData(q, r)

SpecExport == InitExport /\ [][NextExport]_vars

\* ================================================================== claims
\* The status the bookings array bs holds for the booking id.
StatusOf(bs, id) == bs[CHOOSE k \in 1..Len(bs) : bs[k].id = id].status

\* processQRCode ran on scanner i in the last step and its lookup returned.
Classified(i) == lastOp = Op("processQRCode", i, "classified")

\* confirmEntry ran on scanner i in the last step and called markTicketAsUsed.
Invoked(i) == lastOp \in {Op("confirmEntry", i, "success"), Op("confirmEntry", i, "failed")}

\* C1: a booking is reported as successfully redeemed at most once, whatever
\* the interleaving of processQRCode and confirmEntry on the scanners.
C1_AtMostOneSuccessfulCommit ==
    \A b \in BookingIds : successCount[b] <= 1

\* C2: when every scanner has committed against the same booking, exactly one
\* of them reports success, every other one reports RaceLost, and the booking
\* is used.  A scanner has committed when its success alert is up or when
\* confirmEntry is what it ran in the last step.
C2_OneWinnerOthersRaceLost ==
    \A k \in 1..Len(store) :
        LET Committed(i) ==
                /\ lastScannedCode[i] = store[k].qrCode
                /\ alert[i] = "success" \/ (lastOp.op = "confirmEntry" /\ lastOp.scanner = i)
            Outcome(i) == IF alert[i] = "success" THEN "success" ELSE lastOp.outcome
        IN  (\A i \in Scanners : Committed(i)) =>
                /\ Cardinality({i \in Scanners : Outcome(i) = "success"}) = 1
                /\ \A i \in Scanners : Outcome(i) \in {"success", "raceLost"}
                /\ store[k].status = "used"

\* C3: whenever confirmEntry calls markTicketAsUsed for a booking, the store
\* holds the status confirmed for that booking at that moment.
C3_CommitReadsStoreStatus ==
    [][\A i \in Scanners :
          Invoked(i)' =>
              StatusOf(store, bookings[i][ConfirmTarget(i)].id) = "confirmed"]_vars

\* C4: a confirmEntry that finds the booking no longer confirmed gives the
\* user a failure result and does not leave the Valid result on screen.
C4_StaleCommitReportsFailure ==
    \A i \in Scanners :
        lastOp = Op("confirmEntry", i, "skipped") =>
            /\ alert[i] = "failure"
            /\ scanResult[i].type # "success"

\* C5: a booking whose status in the store is used or cancelled keeps that
\* status and never has markTicketAsUsed called on it.
C5_UsedAndCancelledAreTerminal ==
    [][\A b \in BookingIds :
          StatusOf(store, b) \in {"used", "cancelled"} =>
              /\ StatusOf(store', b) = StatusOf(store, b)
              /\ \A i \in Scanners :
                    Invoked(i)' => bookings[i][ConfirmTarget(i)].id # b]_vars

\* C6: only a confirmEntry whose markTicketAsUsed resolves changes the store;
\* processQRCode on every path, the camera and manual handlers and
\* resetScanner leave every booking as it was.
C6_OnlyConfirmEntryChangesStore ==
    [][store' # store => lastOp'.op = "confirmEntry" /\ lastOp'.outcome = "success"]_vars

\* A lookup threw, or a reset abandoned a result, with a confirmed booking in the store.
C6_Witness ==
    /\ lastOp.op = "resetScanner" \/ (lastOp.op = "processQRCode" /\ lastOp.outcome = "threw")
    /\ \E k \in 1..Len(store) : store[k].status = "confirmed"

\* C7: when processQRCode looks up a code no booking of its list has, it sets
\* the invalid-ticket result of type error and the store is unchanged.
C7_UnknownCodeIsNotFound ==
    [][\A i \in Scanners :
          (/\ Classified(i)'
           /\ \A k \in 1..Len(bookings[i]) : bookings[i][k].qrCode # lastScannedCode'[i])
          => /\ scanResult'[i].type = "error"
             /\ scanResult'[i].title = "invalidTicket"
             /\ scanResult'[i].message.text = "notInSystem"
             /\ store' = store]_vars

\* processQRCode has just looked up a code no booking of its list has.
C7_Witness ==
    \E i \in Scanners :
        /\ Classified(i)
        /\ \A k \in 1..Len(bookings[i]) : bookings[i][k].qrCode # lastScannedCode[i]

\* C8: classifying the code of a booking whose status is used sets the
\* used-ticket result of type warning, whose message carries the booking's
\* ticketCount and totalPrice, and the confirm button is not offered.
C8_UsedIsAlreadyUsed ==
    \A i \in Scanners : \A k \in 1..Len(bookings[i]) :
        (/\ Classified(i)
         /\ bookings[i][k].qrCode = lastScannedCode[i]
         /\ bookings[i][k].status = "used")
        => /\ scanResult[i].type = "warning"
           /\ scanResult[i].title = "usedTicket"
           /\ scanResult[i].message.ticketCount = bookings[i][k].ticketCount
           /\ scanResult[i].message.price.amount = bookings[i][k].totalPrice
           /\ (scanResult[i].message.price.text = "free") = (bookings[i][k].totalPrice = 0)
           /\ ~ConfirmOffered(i)

\* processQRCode has just looked up the code of a used booking.
C8_Witness ==
    \E i \in Scanners : \E k \in 1..Len(bookings[i]) :
        /\ Classified(i)
        /\ bookings[i][k].qrCode = lastScannedCode[i]
        /\ bookings[i][k].status = "used"

\* C9: classifying the code of a booking whose status is cancelled sets the
\* cancelled-ticket result of type error, which is neither the invalid-ticket
\* nor the used-ticket result.
C9_CancelledIsCancelled ==
    \A i \in Scanners : \A k \in 1..Len(bookings[i]) :
        (/\ Classified(i)
         /\ bookings[i][k].qrCode = lastScannedCode[i]
         /\ bookings[i][k].status = "cancelled")
        => /\ scanResult[i].type = "error"
           /\ scanResult[i].title = "cancelledTicket"
           /\ scanResult[i].message.text = "wasCancelled"
           /\ scanResult[i] # InvalidResult
           /\ scanResult[i] # UsedResult(bookings[i][k])

\* processQRCode has just looked up the code of a cancelled booking.
C9_Witness ==
    \E i \in Scanners : \E k \in 1..Len(bookings[i]) :
        /\ Classified(i)
        /\ bookings[i][k].qrCode = lastScannedCode[i]
        /\ bookings[i][k].status = "cancelled"

\* C10: classifying the code of a booking whose status is confirmed sets the
\* valid-ticket result of type success, whose message carries the booking's
\* ticketCount and totalPrice, and leaves the booking confirmed.
C10_ConfirmedIsValid ==
    [][\A i \in Scanners : \A k \in 1..Len(bookings[i]) :
          (/\ Classified(i)'
           /\ bookings[i][k].qrCode = lastScannedCode'[i]
           /\ bookings[i][k].status = "confirmed")
          => /\ scanResult'[i].type = "success"
             /\ scanResult'[i].title = "validTicket"
             /\ scanResult'[i].message.ticketCount = bookings[i][k].ticketCount
             /\ scanResult'[i].message.price.amount = bookings[i][k].totalPrice
             /\ (scanResult'[i].message.price.text = "free") = (bookings[i][k].totalPrice = 0)
             /\ bookings'[i][k].status = "confirmed"
             /\ store' = store]_vars

\* processQRCode has just looked up the code of a confirmed booking that is
\* not free of charge.
C10_Witness ==
    \E i \in Scanners : \E k \in 1..Len(bookings[i]) :
        /\ Classified(i)
        /\ bookings[i][k].qrCode = lastScannedCode[i]
        /\ bookings[i][k].status = "confirmed"
        /\ bookings[i][k].totalPrice # 0

\* C11: when scanner i shows the Valid result of a booking that is confirmed,
\* in its list and in the store, a confirmEntry on i never skips; when its
\* markTicketAsUsed resolves, it marks as used the booking whose qrCode is
\* the remembered code, leaves every other booking as it was, and that
\* booking then has been reported as redeemed exactly once.
C11_CommitMarksTheClassifiedBooking ==
    [][\A i \in Scanners : \A k \in 1..Len(store) :
          (/\ lastOp'.op = "confirmEntry" /\ lastOp'.scanner = i
           /\ store[k].qrCode = lastScannedCode[i]
           /\ store[k].status = "confirmed"
           /\ bookings[i][k].status = "confirmed"
           /\ scanResult[i] = ValidResult(store[k]))
          => /\ lastOp'.outcome # "skipped"
             /\ lastOp'.outcome = "success" =>
                   /\ store'[k] = [store[k] EXCEPT !.status = "used"]
                   /\ \A j \in 1..Len(store) : j # k => store'[j] = store[j]
                   /\ successCount'[store[k].id] = 1
                   /\ \A b \in BookingIds : b # store[k].id =>
                         successCount'[b] = successCount[b]
                   /\ alert'[i] = "success"]_vars

\* A commit has just succeeded while another booking is still confirmed.
C11_Witness ==
    \E i \in Scanners : \E k \in 1..Len(store) :
        /\ lastOp = Op("confirmEntry", i, "success")
        /\ store[k].qrCode = lastScannedCode[i]
        /\ successCount[store[k].id] = 1
        /\ \E j \in 1..Len(store) : j # k /\ store[j].status = "confirmed"

\* C12: once a commit of a booking has reported success, every classification
\* of that booking's code, on any scanner, is the used-ticket result.
C12_RedeemedIsAlreadyUsed ==
    \A i \in Scanners : \A k \in 1..Len(store) :
        (/\ Classified(i)
         /\ lastScannedCode[i] = store[k].qrCode
         /\ successCount[store[k].id] >= 1)
        => scanResult[i].title = "usedTicket"

\* C13: markTicketAsUsed is called only by a confirm taken while the scanner
\* shows a Valid result; no step calls it from Idle or from the invalid-,
\* used- or cancelled-ticket result.
C13_CommitOnlyFromValid ==
    [][\A i \in Scanners :
          Invoked(i)' => /\ scanResult[i].type = "success"
                         /\ scanResult[i].title = "validTicket"]_vars

\* markTicketAsUsed has just been called on a scanner showing a Valid result.
C13_Witness ==
    \E i \in Scanners : Invoked(i) /\ scanResult[i].title = "validTicket"

\* C14: while a scanner shows the invalid-, used- or cancelled-ticket result,
\* it processes no other code until resetScanner has run.
C14_ClassifiedIsTerminal ==
    [][\A i \in Scanners :
          scanResult[i].title \in {"invalidTicket", "usedTicket", "cancelledTicket"}
          => ~(/\ lastOp'.op = "processQRCode" /\ lastOp'.scanner = i
               /\ lastScannedCode'[i] # lastScannedCode[i])]_vars

C16_ClassifyIdempotent ==
    [][\A i \in Scanners :
          (/\ Classified(i) /\ Classified(i)'
           /\ lastScannedCode'[i] = lastScannedCode[i]
           /\ bookings'[i] = bookings[i])
          => scanResult'[i] = scanResult[i]]_vars

\* A Valid result is on screen right after its classification and the manual
\* entry still holds the same code, ready to be submitted again.
C16_Witness ==
    \E i \in Scanners :
        /\ Classified(i)
        /\ scanResult[i].type = "success"
        /\ alert[i] = "none"
        /\ Trim(manualQRCode[i]) = lastScannedCode[i]

\* Scanner i has looked `code` up: the code is remembered as given and the
\* result is that of the first booking whose qrCode is exactly `code`, the
\* not-found result if there is none.
LookedUp(i, code) ==
    LET bs == bookings[i]
        hits == {k \in 1..Len(bs) : bs[k].qrCode = code}
    IN  /\ lastScannedCode[i] = code
        /\ hits = {} => scanResult[i] = InvalidResult
        /\ \A k \in hits :
              (\A j \in hits : k <= j)
              => scanResult[i] =
                    IF bs[k].status = "used" THEN UsedResult(bs[k])
                    ELSE IF bs[k].status = "cancelled" THEN CancelledResult
                    ELSE ValidResult(bs[k])

\* C17 as stated: the code the camera delivered, and the text as typed in the
\* manual entry, is looked up unchanged.
C17_LookupUsesCodeUnchanged ==
    [][/\ \A d \in LookupCameraCodes :
             HandleBarCodeScanned(1, d, FALSE) => LookedUp(1, d)'
       /\ HandleManualQRSubmit(2, FALSE) => LookedUp(2, manualQRCode[2])']_vars

\* C17 amended: the code the camera delivered is looked up unchanged; the
\* typed text is looked up with its leading and trailing white space removed,
\* and unchanged otherwise (exact, case-sensitive match in both cases).
C17_LookupUsesTrimmedManualCode ==
    [][/\ \A d \in LookupCameraCodes :
             HandleBarCodeScanned(1, d, FALSE) => LookedUp(1, d)'
       /\ HandleManualQRSubmit(2, FALSE) => LookedUp(2, Trim(manualQRCode[2]))']_vars

\* A typed text with white space around a booking's code has just been
\* submitted and the booking was found.
C17_Witness ==
    /\ lastOp = Op("processQRCode", 2, "classified")
    /\ manualQRCode[2] # Trim(manualQRCode[2])
    /\ LookedUp(2, Trim(manualQRCode[2]))
    /\ scanResult[2] # InvalidResult

\* C18: right after any processQRCode, whether its lookup returned or threw,
\* the scanner has a result and its type is success, warning or error.
C18_ClassifyAlwaysGivesAResult ==
    \A i \in Scanners :
        (lastOp.op = "processQRCode" /\ lastOp.scanner = i)
        => /\ scanResult[i] # NoResult
           /\ scanResult[i].type \in {"success", "warning", "error"}

\* The lookup of a processQRCode has just thrown.
C18_Witness ==
    \E i \in Scanners : lastOp = Op("processQRCode", i, "threw")

\* C19: when markTicketAsUsed throws, confirmEntry shows the failure alert,
\* reports no success, leaves the store alone and resets the scanner to Idle.
C19_StoreFailureIsReported ==
    [][\A i \in Scanners :
          lastOp' = Op("confirmEntry", i, "failed")
          => /\ alert'[i] = "failure"
             /\ successCount' = successCount
             /\ store' = store
             /\ ~scanned'[i]
             /\ scanResult'[i] = NoResult
             /\ lastScannedCode'[i] = EmptyCode
             /\ manualQRCode'[i] = EmptyCode]_vars

\* markTicketAsUsed has just thrown in a confirmEntry.
C19_Witness ==
    \E i \in Scanners : lastOp = Op("confirmEntry", i, "failed") /\ alert[i] = "failure"

C21_DuplicateScansAreDropped ==
    [][\A i \in Scanners :
          /\ \A d \in CameraCodes :
                HandleBarCodeScannedDrop(i, d)
                => UNCHANGED << store, bookings, scanned, scanResult,
                                manualQRCode, lastScannedCode, scanTimeout >>
          /\ (/\ Platform[i] = "native"
              /\ lastOp'.op = "processQRCode" /\ lastOp'.scanner = i)
             => /\ ~scanned[i]
                /\ lastScannedCode'[i] # lastScannedCode[i]]_vars

\* A result is on the camera scanner's screen, the code is remembered, and
\* the last step processed nothing: camera events of any code are dropped.
C21_Witness ==
    /\ scanned[1]
    /\ scanResult[1] # NoResult
    /\ lastScannedCode[1] = CodeA
    /\ lastOp = NoOp
    /\ \A d \in CameraCodes : ENABLED HandleBarCodeScannedDrop(1, d)

\* C22: between a resetScanner and the firing of the timer it schedules, no
\* camera event is processed.
C22_NoScanWhileTheTimerIsPending ==
    [][\A i \in Scanners :
          (Platform[i] = "native" /\ scanTimeout[i])
          => ~(lastOp'.op = "processQRCode" /\ lastOp'.scanner = i)]_vars

\* C23: a manual submit of a text that is empty or only white space shows the
\* empty-input alert, runs no processQRCode and leaves scanned, scanResult,
\* lastScannedCode and bookings as they were; and every processQRCode of the
\* manual path is given a non-empty code.
C23_EmptyManualSubmitIsRejected ==
    [][\A i \in Scanners :
          /\ (/\ Trim(manualQRCode[i]) = EmptyCode
              /\ \/ HandleManualQRSubmitEmpty(i)
                 \/ \E th \in BOOLEAN : HandleManualQRSubmit(i, th))
             => /\ alert'[i] = "emptyInput"
                /\ lastOp'.op # "processQRCode"
                /\ UNCHANGED << store, bookings, scanned, scanResult,
                                lastScannedCode >>
          /\ (/\ Platform[i] = "web"
              /\ lastOp'.op = "processQRCode" /\ lastOp'.scanner = i)
             => /\ Trim(manualQRCode[i]) # EmptyCode
                /\ lastScannedCode'[i] # EmptyCode]_vars

\* A text of white space only was submitted and the alert is on screen, with
\* nothing scanned.
C23_Witness ==
    /\ alert[2] = "emptyInput"
    /\ manualQRCode[2] = << " " >>
    /\ ~scanned[2]
    /\ scanResult[2] = NoResult

\* C24: a displayed result implies that scanning is disabled.
C24_ResultImpliesScanned ==
    \A i \in Scanners : scanResult[i] # NoResult => scanned[i]

C27_ChosenLanguageSurvivesTheLoad ==
    (/\ providerB.load = "done"
     /\ i18nHist.loadedFrom # "error"
     /\ i18nHist.lastSet \in SupportedLanguages)
    => providerB.locale = i18nHist.lastSet

\* C28: the locale of the persisted provider is always a supported language.
C28_LocaleIsAlwaysSupported ==
    /\ providerB.locale \in SupportedLanguages
    /\ providerB.i18nLocale \in SupportedLanguages

\* C29: hasError is false at first; it becomes true, with the error thrown
\* stored, exactly when something rendered throws; it stays true until
\* handleRetry, which sets hasError to false and error to undefined; and
\* while hasError is true the render returns the fallback prop if one is
\* given, the default error view if not, never the children.
C29_ErrorBoundaryStateMachine ==
    /\ boundaryState = [hasError |-> FALSE, error |-> Undefined]
    /\ [][/\ boundaryOp' = "caught"
             => /\ boundaryState'.hasError
                /\ boundaryState'.error = errorLog'[Len(errorLog')]
                /\ Len(errorLog') = Len(errorLog) + 1
          /\ (~boundaryState.hasError /\ boundaryState'.hasError)
             => boundaryOp' = "caught"
          /\ (boundaryState.hasError /\ boundaryOp' # "retry")
             => boundaryState'.hasError
          /\ boundaryOp' = "retry"
             => boundaryState' = [hasError |-> FALSE, error |-> Undefined]
          /\ boundaryState'.hasError
             => /\ output'.view # "children"
                /\ output'.node \notin ChildNodes
                /\ IF IsTruthy(boundaryProps'.fallback)
                   THEN output'.view = "fallback"
                        /\ output'.node = boundaryProps'.fallback
                   ELSE output'.view = "default"
          /\ ~boundaryState'.hasError
             => output' = [view |-> "children", node |-> boundaryProps'.children,
                           details |-> Undefined]]_vars

\* An error was caught and handleRetry has just put the children back.
C29_Witness ==
    /\ boundaryOp = "retry"
    /\ errorLog # << >>
    /\ boundaryState = [hasError |-> FALSE, error |-> Undefined]
    /\ output.view = "children"

\* C30: a getSecureData whose read did not fail returns the value of the
\* key's last successful store, and null if the key was never stored or was
\* deleted since, whatever was done to other keys.
C30_SecureStorageRoundTrip ==
    (storageOp.op = "get" /\ storageOp.outcome = "resolved")
    => lastGet.result = expected[lastGet.key]

\* C31: user-data export round trip and password check.  When decryptUserData
\* has run on what encryptUserData returned for the data d and the password
\* p, it returned d if it was given p, and it threw and returned no data if it
\* was given another password.
C31_ExportRoundTripAndPasswordCheck ==
    importCall.outcome # "none" =>
        IF importCall.password = exportCall.password
        THEN importCall.outcome = "returned" /\ importCall.value = exportCall.data
        ELSE importCall.outcome = "threw"

====
